---- MODULE Spec2Model ----
(***************************************************************************)
(* Advent of Code 2023, days 3 to 6.  Each day is a program of its own;    *)
(* each has its own specification below and leaves the variables of the    *)
(* other days alone.                                                       *)
(*                                                                         *)
(* day5: the Gardener's seed-range pipeline.  A Category holds an ordered  *)
(* list of rules (destination_start, source_start, length); a Gardener     *)
(* holds the seed ranges (start, end) and the categories, and threads the  *)
(* ranges through every category's convert_seed_range, whose work-list     *)
(* loop is modelled one iteration per step.                                *)
(***************************************************************************)
EXTENDS Integers, Sequences, FiniteSets

\* ---------------------------------------------------------------- bounds
MaxDest == 1          \* destination_start of a rule is drawn from 0..MaxDest
MaxSrc == 2           \* source_start of a rule is drawn from 0..MaxSrc
MaxRuleLen == 2       \* length of a rule is drawn from 0..MaxRuleLen
MaxRules == 2         \* rules in the whole almanac (Spec)
MaxCategories == 2    \* categories in the almanac (Spec)
MaxStart == 1         \* a seed range starts in 0..MaxStart
MaxCount == 3         \* and holds 0..MaxCount seeds
MaxRanges == 2        \* seed ranges of the almanac
MaxCalls == 2         \* calls of find_lowest_location_from_seed_ranges
MaxScanRules == 3     \* rules of the single category of SpecScan
MaxChainStart == 3    \* SpecChain: the seed range starts in 0..MaxChainStart
MaxChainCount == 7    \* SpecChain: and holds 1..MaxChainCount seeds

VARIABLES
    categories,        \* Gardener.categories: sequence of category_map lists
    seed_ranges,       \* Gardener.seed_ranges
    seed_ranges_pair,  \* the work-list convert_seed_range pops from
    converted_ranges,  \* the list convert_seed_range appends to
    seed_pair,         \* the list convert_to_location_seed_ranges holds
    idx,               \* position in categories.values()
    pc,                \* where the running program stands
    results,           \* values returned by the completed calls, in order
    args,              \* the list as passed to the running convert_seed_range
    origin,            \* per output range, the start of the piece it came from
    given,             \* self.seed_ranges as the latest call found it
    block,             \* day5: the lines of the text block Category is built from
    duration,          \* day6: argument of calculate_ways_to_win_for_one_race
    distance_record,   \* day6: argument of calculate_ways_to_win_for_one_race
    hold_time,         \* day6: the loop variable
    first_time,        \* day6: the local first_time
    ways,              \* day6: the value returned
    deck,              \* day4: Deck.deck, the cards in dictionary order
    quantities,        \* day4: Deck.quantities
    deck_pos,          \* day4: position of gain_cards in self.deck.items()
    total,             \* day4: value returned by number_of_cards_in_total
    gained,            \* day4: completed calls of gain_cards
    schematic,         \* day3: the rows of the schematic
    symbol_coords,     \* day3: the dictionary process_schematic fills
    cur_r,             \* day3: rows process_schematic has scanned
    part_sum           \* day3: value returned by sum_adjacent_values

race == <<duration, distance_record, hold_time, first_time, ways>>
cards == <<deck, quantities, deck_pos, total, gained>>
engine == <<schematic, symbol_coords, cur_r, part_sum>>

vars == <<categories, seed_ranges, seed_ranges_pair, converted_ranges,
          seed_pair, idx, pc, results, args, origin, given, block,
          race, cards, engine>>

\* the programs of the other days are not running
NoGardener ==
    /\ categories = <<>> /\ seed_ranges = <<>>
    /\ seed_ranges_pair = <<>> /\ converted_ranges = <<>>
    /\ seed_pair = <<>> /\ idx = 0 /\ results = <<>>
    /\ args = <<>> /\ origin = <<>> /\ given = <<>> /\ block = <<>>

gardener == <<categories, seed_ranges, seed_ranges_pair, converted_ranges,
              seed_pair, idx, results, args, origin, given, block>>

NoRace ==
    /\ duration = 0 /\ distance_record = 0
    /\ hold_time = 0 /\ first_time = 0 /\ ways = 0

NoDeck ==
    /\ deck = <<>> /\ quantities = <<>>
    /\ deck_pos = 0 /\ total = 0 /\ gained = 0

NoSchematic ==
    /\ schematic = <<>> /\ symbol_coords = <<>>
    /\ cur_r = 0 /\ part_sum = 0

\* ------------------------------------------------------------- data sets
SeqsUpTo(S, n) == UNION {[1..k -> S] : k \in 0..n}

\* Category.category_map entries: (destination_start, source_start, length)
Rules == (0..MaxDest) \X (0..MaxSrc) \X (0..MaxRuleLen)

\* Gardener.seed_ranges entries: (start, start + count)
Ranges == {<<s, s + c>> : s \in 0..MaxStart, c \in 0..MaxCount}

RECURSIVE TotalRules(_)
TotalRules(cats) ==
    IF cats = <<>> THEN 0 ELSE Len(Head(cats)) + TotalRules(Tail(cats))

\* ------------------------------------------------------ Category methods
\* slip: the lower end of a rule's source interval is excluded
RECURSIVE FirstContainingStrict(_, _, _)
FirstContainingStrict(category_map, source_number, i) ==
    IF i > Len(category_map) THEN 0
    ELSE IF category_map[i][2] < source_number
            /\ source_number < category_map[i][2] + category_map[i][3]
         THEN i
         ELSE FirstContainingStrict(category_map, source_number, i + 1)

\* index of the first rule of category_map containing source_number, or 0
RECURSIVE FirstContaining(_, _, _)
FirstContaining(category_map, source_number, i) ==
    IF i > Len(category_map) THEN 0
    ELSE IF category_map[i][2] <= source_number
            /\ source_number < category_map[i][2] + category_map[i][3]
         THEN i
         ELSE FirstContaining(category_map, source_number, i + 1)

convert_initial_seed(category_map, source_number) ==
    LET i == FirstContaining(category_map, source_number, 1) IN
    IF i = 0 THEN source_number
    ELSE category_map[i][1] + (source_number - category_map[i][2])

Max(a, b) == IF a > b THEN a ELSE b
Min(a, b) == IF a < b THEN a ELSE b

overlap_start(rule, start) == Max(start, rule[2])

\* slip: the overlap is not clipped to the end of the range
overlap_end_unclipped(rule, end) == rule[2] + rule[3]

overlap_end(rule, end) == Min(end, rule[2] + rule[3])

\* slip: the for loop has no break, the last overlapping rule wins
RECURSIVE LastOverlap(_, _, _, _)
LastOverlap(category_map, start, end, i) ==
    IF i > Len(category_map) THEN 0
    ELSE LET later == LastOverlap(category_map, start, end, i + 1) IN
         IF later # 0 THEN later
         ELSE IF overlap_start(category_map[i], start)
                     < overlap_end(category_map[i], end)
              THEN i
              ELSE 0

\* index of the first rule the for loop breaks on for (start, end), or 0
RECURSIVE FirstOverlap(_, _, _, _)
FirstOverlap(category_map, start, end, i) ==
    IF i > Len(category_map) THEN 0
    ELSE IF overlap_start(category_map[i], start) < overlap_end(category_map[i], end)
         THEN i
         ELSE FirstOverlap(category_map, start, end, i + 1)

\* the for loop unpacks each rule it reaches into three names: TRUE when it
\* reaches a rule that is not a 3-tuple before it breaks
RECURSIVE ScanRaises(_, _, _, _)
ScanRaises(category_map, start, end, i) ==
    IF i > Len(category_map) THEN FALSE
    ELSE IF Len(category_map[i]) # 3 THEN TRUE
    ELSE IF overlap_start(category_map[i], start) < overlap_end(category_map[i], end)
         THEN FALSE
         ELSE ScanRaises(category_map, start, end, i + 1)

\* slip: the suffix behind the overlap is not pushed back
RequeuedNoSuffix(start, end, os, oe) ==
    IF os > start THEN <<<<start, os>>>> ELSE <<>>

\* slip: the prefix before the overlap is not pushed back
RequeuedNoPrefix(start, end, os, oe) ==
    IF end > oe THEN <<<<oe, end>>>> ELSE <<>>

\* slip: >= for >, an empty prefix is pushed back too
RequeuedEmptyPrefix(start, end, os, oe) ==
    (IF os >= start THEN <<<<start, os>>>> ELSE <<>>)
        \o (IF end > oe THEN <<<<oe, end>>>> ELSE <<>>)

\* slip: the suffix is pushed back from the start of the overlap
RequeuedFromOverlap(start, end, os, oe) ==
    (IF os > start THEN <<<<start, os>>>> ELSE <<>>)
        \o (IF end > oe THEN <<<<os, end>>>> ELSE <<>>)

\* what one matched iteration pushes back onto the work-list
Requeued(start, end, os, oe) ==
    (IF os > start THEN <<<<start, os>>>> ELSE <<>>)
        \o (IF end > oe THEN <<<<oe, end>>>> ELSE <<>>)

\* ------------------------------------------------------ Gardener methods
RECURSIVE convert_to_location_initial_seeds(_, _)
convert_to_location_initial_seeds(cats, seed_number) ==
    IF cats = <<>> THEN seed_number
    ELSE convert_to_location_initial_seeds(
             Tail(cats), convert_initial_seed(Head(cats), seed_number))

\* Python's tuple order on pairs
TupleLeq(a, b) == a[1] < b[1] \/ (a[1] = b[1] /\ a[2] <= b[2])

\* slip: the first range is taken for the lowest
MinTupleFirst(list) == list[1]

\* min(seed_ranges_pair)
MinTuple(list) ==
    LET i == CHOOSE i \in 1..Len(list) :
                 \A j \in 1..Len(list) : TupleLeq(list[i], list[j])
    IN list[i]

\* ---------------------------------------------------------------- states
Almanac(cats, seeds) ==
    /\ categories = cats
    /\ seed_ranges = seeds
    /\ seed_ranges_pair = <<>>
    /\ converted_ranges = <<>>
    /\ seed_pair = <<>>
    /\ idx = 0
    /\ pc = "idle"
    /\ results = <<>>
    /\ args = <<>>
    /\ origin = <<>>
    /\ given = <<>>
    /\ block = <<>>
    /\ NoRace /\ NoDeck /\ NoSchematic

Init ==
    \E cats \in SeqsUpTo(SeqsUpTo(Rules, MaxRules), MaxCategories),
       seeds \in SeqsUpTo(Ranges, MaxRanges) :
        /\ TotalRules(cats) <= MaxRules
        /\ Almanac(cats, seeds)

\* --------------------------------------------------------------- actions
\* find_lowest_location_from_seed_ranges is called; the list handed down to
\* the first convert_seed_range is self.seed_ranges itself
FindLowest ==
    /\ pc = "idle"
    /\ Len(results) < MaxCalls
    /\ seed_pair' = seed_ranges
    /\ idx' = IF categories = <<>> THEN 0 ELSE 1
    /\ pc' = IF categories = <<>> THEN "min" ELSE "drain"
    /\ seed_ranges_pair' = IF categories = <<>> THEN <<>> ELSE seed_ranges
    /\ args' = IF categories = <<>> THEN <<>> ELSE seed_ranges
    /\ converted_ranges' = <<>>
    /\ origin' = <<>>
    /\ given' = seed_ranges
    /\ UNCHANGED <<categories, seed_ranges, results>>
    /\ UNCHANGED <<block, race, cards, engine>>

\* the work-list after the pop and the pushes; in the first category the
\* work-list is the Gardener's own list object
Drained(rest) ==
    /\ seed_ranges_pair' = rest
    /\ seed_ranges' = IF idx = 1 THEN rest ELSE seed_ranges

\* one iteration of the while loop in which a rule overlaps the popped range
Split ==
    /\ pc = "drain"
    /\ seed_ranges_pair # <<>>
    /\ LET n == Len(seed_ranges_pair)
           start == seed_ranges_pair[n][1]
           end == seed_ranges_pair[n][2]
           i == FirstOverlap(categories[idx], start, end, 1)
       IN /\ ~ScanRaises(categories[idx], start, end, 1)
          /\ i # 0
          /\ LET rule == categories[idx][i]
                 os == overlap_start(rule, start)
                 oe == overlap_end(rule, end)
             IN /\ converted_ranges' = Append(converted_ranges,
                        <<os - rule[2] + rule[1], oe - rule[2] + rule[1]>>)
                /\ origin' = Append(origin, os)
                /\ Drained(SubSeq(seed_ranges_pair, 1, n - 1)
                               \o Requeued(start, end, os, oe))
    /\ UNCHANGED <<categories, seed_pair, idx, pc, results, args, given>>
    /\ UNCHANGED <<block, race, cards, engine>>

\* slip: the for loop has no else branch, a range no rule overlaps is lost
PassThroughLost ==
    /\ pc = "drain"
    /\ seed_ranges_pair # <<>>
    /\ LET n == Len(seed_ranges_pair)
       IN /\ ~ScanRaises(categories[idx], seed_ranges_pair[n][1],
                         seed_ranges_pair[n][2], 1)
          /\ FirstOverlap(categories[idx], seed_ranges_pair[n][1],
                          seed_ranges_pair[n][2], 1) = 0
          /\ Drained(SubSeq(seed_ranges_pair, 1, n - 1))
    /\ UNCHANGED <<categories, converted_ranges, seed_pair, idx, pc, results,
                   args, origin, given>>
    /\ UNCHANGED <<block, race, cards, engine>>

\* one iteration of the while loop that runs the for loop to its else branch
PassThrough ==
    /\ pc = "drain"
    /\ seed_ranges_pair # <<>>
    /\ LET n == Len(seed_ranges_pair)
           start == seed_ranges_pair[n][1]
           end == seed_ranges_pair[n][2]
       IN /\ ~ScanRaises(categories[idx], start, end, 1)
          /\ FirstOverlap(categories[idx], start, end, 1) = 0
          /\ converted_ranges' = Append(converted_ranges, <<start, end>>)
          /\ origin' = Append(origin, start)
          /\ Drained(SubSeq(seed_ranges_pair, 1, n - 1))
    /\ UNCHANGED <<categories, seed_pair, idx, pc, results, args, given>>
    /\ UNCHANGED <<block, race, cards, engine>>

\* convert_seed_range returns; convert_to_location_seed_ranges hands the
\* returned list to the next category, or returns it after the last one
ReturnConverted ==
    /\ pc = "drain"
    /\ seed_ranges_pair = <<>>
    /\ seed_pair' = converted_ranges
    /\ IF idx < Len(categories)
       THEN /\ idx' = idx + 1
            /\ seed_ranges_pair' = converted_ranges
            /\ args' = converted_ranges
            /\ pc' = "drain"
       ELSE /\ idx' = 0
            /\ seed_ranges_pair' = <<>>
            /\ args' = <<>>
            /\ pc' = "min"
    /\ converted_ranges' = <<>>
    /\ origin' = <<>>
    /\ UNCHANGED <<categories, seed_ranges, results, given>>
    /\ UNCHANGED <<block, race, cards, engine>>

\* return min(seed_ranges_pair)[0]
ReturnLowest ==
    /\ pc = "min"
    /\ seed_pair # <<>>
    /\ results' = Append(results, MinTuple(seed_pair)[1])
    /\ pc' = "idle"
    /\ UNCHANGED <<categories, seed_ranges, seed_ranges_pair, converted_ranges,
                   seed_pair, idx, args, origin, given>>
    /\ UNCHANGED <<block, race, cards, engine>>

\* min() of an empty list raises ValueError
RaiseValueError ==
    /\ pc = "min"
    /\ seed_pair = <<>>
    /\ pc' = "raised"
    /\ UNCHANGED <<categories, seed_ranges, seed_ranges_pair, converted_ranges,
                   seed_pair, idx, results, args, origin, given>>
    /\ UNCHANGED <<block, race, cards, engine>>

Next ==
    \/ FindLowest
    \/ Split
    \/ PassThrough
    \/ ReturnConverted
    \/ ReturnLowest
    \/ RaiseValueError

Spec == Init /\ [][Next]_vars

\* one category of up to MaxScanRules rules, one seed range
InitScan ==
    \E category_map \in SeqsUpTo(Rules, MaxScanRules), seed \in Ranges :
        Almanac(<<category_map>>, <<seed>>)

SpecScan == InitScan /\ [][Next]_vars

\* the two-category almanac "[0,10) -> [100,110)" then "[100,105) -> [1000,1005)"
CategoryA == <<<<100, 0, 10>>>>
CategoryB == <<<<1000, 100, 5>>>>

InitChain ==
    \E s \in 0..MaxChainStart, c \in 1..MaxChainCount :
        Almanac(<<CategoryA, CategoryB>>, <<<<s, s + c>>>>)

SpecChain == InitChain /\ [][Next]_vars

\* ---------------------------------------------------- day5: Category(block)
MaxBlockLines == 2    \* rule lines of the text block
MaxFields == 4        \* a rule line holds 0..MaxFields tokens

Tokens == {"0", "2", "x"}

\* int(token) for the tokens int() accepts
IntOf == [t \in {"0", "2"} |-> IF t = "0" THEN 0 ELSE 2]

\* tuple(map(int, line.split()))
ParsedLine(line) == [k \in DOMAIN line |-> IntOf[line[k]]]

\* Category.__init__: every token goes through int(), a line becomes a tuple
\* of as many fields as it has tokens
CategoryInit ==
    /\ pc = "parse"
    /\ IF \E l \in DOMAIN block : \E k \in DOMAIN block[l] :
               block[l][k] \notin DOMAIN IntOf
       THEN /\ pc' = "raised_init"
            /\ UNCHANGED categories
       ELSE /\ pc' = "idle"
            /\ categories' = Append(categories,
                                 [l \in DOMAIN block |-> ParsedLine(block[l])])
    /\ UNCHANGED <<seed_ranges, seed_ranges_pair, converted_ranges, seed_pair,
                   idx, results, args, origin, given, block, race, cards, engine>>

\* the iteration pops a range and the for loop fails to unpack a rule
RaiseUnpack ==
    /\ pc = "drain"
    /\ seed_ranges_pair # <<>>
    /\ LET n == Len(seed_ranges_pair)
       IN /\ ScanRaises(categories[idx], seed_ranges_pair[n][1],
                        seed_ranges_pair[n][2], 1)
          /\ Drained(SubSeq(seed_ranges_pair, 1, n - 1))
    /\ pc' = "raised_unpack"
    /\ UNCHANGED <<categories, converted_ranges, seed_pair, idx, results, args,
                   origin, given, block, race, cards, engine>>

NextParse ==
    \/ CategoryInit
    \/ FindLowest
    \/ Split
    \/ PassThrough
    \/ RaiseUnpack
    \/ ReturnConverted
    \/ ReturnLowest
    \/ RaiseValueError

\* the almanac text holds one seed range and one category block
InitParse ==
    \E lines \in SeqsUpTo(SeqsUpTo(Tokens, MaxFields), MaxBlockLines),
       seed \in Ranges :
        /\ categories = <<>>
        /\ seed_ranges = <<seed>>
        /\ seed_ranges_pair = <<>>
        /\ converted_ranges = <<>>
        /\ seed_pair = <<>>
        /\ idx = 0
        /\ pc = "parse"
        /\ results = <<>>
        /\ args = <<>>
        /\ origin = <<>>
        /\ given = <<>>
        /\ block = lines
        /\ NoRace /\ NoDeck /\ NoSchematic

SpecParse == InitParse /\ [][NextParse]_vars

TypeOK ==
    /\ pc \in {"idle", "drain", "min", "raised", "parse", "raised_init",
               "raised_unpack", "hold", "count", "returned", "deck", "gain",
               "counted", "key_error", "schematic", "scan", "processed",
               "summed"}
    /\ Len(origin) = Len(converted_ranges)

\* ------------------------------------------------------------ properties
\* the integers covered by a list of half-open ranges
Points(list) == UNION {list[i][1]..(list[i][2] - 1) : i \in DOMAIN list}

SetMin(S) == CHOOSE m \in S : \A x \in S : m <= x

\* the running convert_seed_range has drained its work-list and is about to
\* return converted_ranges for the argument args
CallDone == pc = "drain" /\ seed_ranges_pair = <<>>

NonEmptySeeds(list) ==
    list # <<>> /\ \A i \in DOMAIN list : list[i][1] < list[i][2]

\* the output ranges that represent the original point p: range k stands for
\* the input piece that starts at origin[k] and has its length
Reps(p) ==
    {k \in DOMAIN converted_ranges :
        origin[k] <= p
        /\ p < origin[k] + (converted_ranges[k][2] - converted_ranges[k][1])}

\* the input ranges that contain p
Holders(p) == {i \in DOMAIN args : args[i][1] <= p /\ p < args[i][2]}

\* C1: called on a non-empty list of non-empty seed ranges,
\* find_lowest_location_from_seed_ranges returns the least start among the
\* ranges the pipeline produced, and that is the least location
\* convert_to_location_initial_seeds gives to any seed of any seed range.
C1_LowestLocation ==
    (pc = "idle" /\ results # <<>> /\ NonEmptySeeds(given)) =>
        /\ results[Len(results)]
               = SetMin({seed_pair[i][1] : i \in DOMAIN seed_pair})
        /\ results[Len(results)]
               = SetMin({convert_to_location_initial_seeds(categories, p) :
                            p \in Points(given)})

C1_Witness ==
    /\ pc = "idle" /\ results # <<>> /\ NonEmptySeeds(given)
    /\ Len(categories) = 2 /\ categories[1] # <<>> /\ categories[2] # <<>>
    /\ Len(given) = 2 /\ Len(seed_pair) >= 3
    /\ seed_pair[1][1] # results[1]
    /\ results[1] # SetMin(Points(given))

\* C2: the points covered by the ranges convert_seed_range returns are the
\* images, under the category's point map, of the points its argument covers.
C2_Coverage ==
    CallDone =>
        Points(converted_ranges)
            = {convert_initial_seed(categories[idx], p) : p \in Points(args)}

C2_Witness ==
    /\ CallDone
    /\ Len(args) = 2 /\ Len(converted_ranges) >= 4
    /\ \E p \in Points(args) : convert_initial_seed(categories[idx], p) = p
    /\ \E p \in Points(args) : convert_initial_seed(categories[idx], p) # p

\* C3 as stated: disjoint or overlapping, every original point is represented
\* by exactly one output sub-range.
C3_ExactlyOnce ==
    CallDone => \A p \in Points(args) : Cardinality(Reps(p)) = 1

\* C3 as amended: every original point is represented by as many output
\* sub-ranges as input ranges contain it: by exactly one when the input ranges
\* are pairwise disjoint, by more than one where they overlap.
C3_OncePerInputRange ==
    CallDone =>
        \A p \in Points(args) : Cardinality(Reps(p)) = Cardinality(Holders(p))

C3_Witness ==
    /\ CallDone
    /\ Len(converted_ranges) >= 4
    /\ \E p \in Points(args) : Cardinality(Holders(p)) = 2
    /\ \E p \in Points(args) : Cardinality(Holders(p)) = 1

\* C4: convert_seed_range leaves the list it is given as it was, so
\* Gardener.seed_ranges is the same after a call of
\* find_lowest_location_from_seed_ranges as before it, and every further call
\* returns what the first one returned.
C4_Pure ==
    /\ CallDone => seed_ranges_pair = args
    /\ (pc = "idle" /\ results # <<>>) => seed_ranges = given
    /\ results # <<>> => pc # "raised"
    /\ \A i, j \in DOMAIN results : results[i] = results[j]

\* C5: convert_seed_range([(n, n + 1)]) returns [(c, c + 1)] with
\* c = convert_initial_seed(n).
C5_SingleValue ==
    (CallDone /\ Len(args) = 1 /\ args[1][2] = args[1][1] + 1) =>
        LET c == convert_initial_seed(categories[idx], args[1][1])
        IN converted_ranges = <<<<c, c + 1>>>>

C5_Witness ==
    /\ CallDone /\ Len(args) = 1 /\ args[1][2] = args[1][1] + 1
    /\ Len(categories[idx]) = 2
    /\ FirstContaining(categories[idx], args[1][1], 1) = 2
    /\ converted_ranges[1] # args[1]

\* the rules of the running category whose source interval contains p
Containing(p) ==
    {i \in DOMAIN categories[idx] :
        categories[idx][i][2] <= p
        /\ p < categories[idx][i][2] + categories[idx][i][3]}

\* p translated by the offset of rule i of the running category
ByRule(i, p) == categories[idx][i][1] + (p - categories[idx][i][2])

\* C6: an input point lying in the source interval of more than one rule is
\* translated by the first of these rules in listed order, by
\* convert_initial_seed and by convert_seed_range alike, also when it reaches
\* the rule scan inside a re-queued prefix or suffix.
C6_FirstMatchWins ==
    CallDone =>
        \A p \in Points(args) :
            Cardinality(Containing(p)) >= 2 =>
                LET first == SetMin(Containing(p)) IN
                /\ convert_initial_seed(categories[idx], p) = ByRule(first, p)
                /\ Reps(p) # {}
                /\ \A k \in Reps(p) :
                       converted_ranges[k][1] + (p - origin[k]) = ByRule(first, p)

\* the point lies in two rules of different offsets and is translated out of
\* a re-queued piece (the only input range gave the first output range)
C6_Witness ==
    /\ CallDone /\ Len(args) = 1
    /\ \E p \in Points(args) :
           /\ \E i, j \in Containing(p) : ByRule(i, p) # ByRule(j, p)
           /\ \E k \in Reps(p) : k > 1

\* C7 as stated: [2,8) through A and then B gives {[1002,1005), [107,108)}.
C7_AsStated ==
    (pc = "min" /\ given = <<<<2, 8>>>>) =>
        {seed_pair[i] : i \in DOMAIN seed_pair}
            = {<<1002, 1005>>, <<107, 108>>}

\* C7 as amended: [2,8) through A and then B gives {[1002,1005), [105,108)}.
C7_Chained ==
    (pc = "min" /\ given = <<<<2, 8>>>>) =>
        /\ Len(seed_pair) = 2
        /\ {seed_pair[i] : i \in DOMAIN seed_pair}
               = {<<1002, 1005>>, <<105, 108>>}

C7_Witness ==
    /\ pc = "min" /\ given = <<<<2, 8>>>>
    /\ categories = <<CategoryA, CategoryB>>
    /\ seed_pair # <<>>

\* the running category has the single rule (d, s, len), its argument is the
\* single range [a, b), and the rule's non-empty source interval lies strictly
\* inside the range: a < s and s + len < b
PartialCase ==
    /\ pc = "drain"
    /\ Len(categories[idx]) = 1 /\ Len(args) = 1
    /\ categories[idx][1][3] >= 1
    /\ args[1][1] < categories[idx][1][2]
    /\ categories[idx][1][2] + categories[idx][1][3] < args[1][2]

Top == seed_ranges_pair[Len(seed_ranges_pair)]

\* the range r lies within the source interval of the rule
Within(r, rule) == rule[2] <= r[1] /\ r[2] <= rule[2] + rule[3]

\* the range r shifted by the offset of the rule
Shifted(r, rule) == <<r[1] - rule[2] + rule[1], r[2] - rule[2] + rule[1]>>

\* the iteration that pops Top emits the one range out and pushes nothing back
OneOutNoResidual(out) ==
    /\ converted_ranges' = Append(converted_ranges, out)
    /\ seed_ranges_pair'
           = SubSeq(seed_ranges_pair, 1, Len(seed_ranges_pair) - 1)

\* the rules whose source interval shares a point with the range r
Touching(r) ==
    {i \in DOMAIN categories[idx] :
        \E p \in r[1]..(r[2] - 1) :
            /\ categories[idx][i][2] <= p
            /\ p < categories[idx][i][2] + categories[idx][i][3]}

\* C9 as stated: a non-empty range within the source interval of one of the
\* category's rules yields exactly one translated range and no residual.
C9_AsStated ==
    [][(pc = "drain" /\ seed_ranges_pair # <<>> /\ Top[1] < Top[2]
            /\ \E i \in DOMAIN categories[idx] : Within(Top, categories[idx][i]))
        => \E i \in DOMAIN categories[idx] :
               /\ Within(Top, categories[idx][i])
               /\ OneOutNoResidual(Shifted(Top, categories[idx][i]))]_vars

\* C9 as amended: a non-empty range within the source interval of the first
\* rule, in listed order, that overlaps it yields exactly one output range,
\* translated by that rule, and no residual.
C9_FullContainment ==
    [][(pc = "drain" /\ seed_ranges_pair # <<>> /\ Top[1] < Top[2]
            /\ Touching(Top) # {}
            /\ Within(Top, categories[idx][SetMin(Touching(Top))]))
        => OneOutNoResidual(
               Shifted(Top, categories[idx][SetMin(Touching(Top))]))]_vars

C9_Witness ==
    /\ CallDone /\ Len(args) = 1 /\ args[1][1] + 1 < args[1][2]
    /\ Len(categories[idx]) = 2 /\ categories[idx][1][3] >= 1
    /\ Touching(args[1]) = {2}
    /\ Within(args[1], categories[idx][2])
    /\ converted_ranges = <<Shifted(args[1], categories[idx][2])>>
    /\ converted_ranges[1] # args[1]

\* no point of the range r lies in the source interval of a rule of the
\* running category
OutsideAll(r) == Touching(r) = {}

Count(r, list) == Cardinality({i \in DOMAIN list : list[i] = r})

\* C10: every input range that lies outside every rule's source interval is
\* among the returned ranges unchanged, and a category without rules returns
\* the input ranges unchanged: the same ranges, each as often as it was given.
C10_PassThrough ==
    CallDone =>
        /\ \A i \in DOMAIN args :
               OutsideAll(args[i]) =>
                   Count(args[i], converted_ranges) >= Count(args[i], args)
        /\ categories[idx] = <<>> =>
               /\ Len(converted_ranges) = Len(args)
               /\ \A i \in DOMAIN args :
                      Count(args[i], converted_ranges) = Count(args[i], args)

\* the first category has no rule and handed the seed ranges on; the second
\* one leaves one of its two input ranges alone and translates the other
C10_Witness ==
    /\ CallDone /\ idx = 2
    /\ categories[1] = <<>> /\ categories[2] # <<>>
    /\ Len(given) = 2 /\ given[1] # given[2]
    /\ args = <<given[2], given[1]>>
    /\ \E i \in 1..2 : args[i][1] < args[i][2] /\ OutsideAll(args[i])
    /\ \E i \in 1..2 : ~OutsideAll(args[i])

\* the drain loop keeps running: Python executes the next iteration
LiveScan ==
    InitScan /\ [][Next]_vars /\ WF_vars(Split) /\ WF_vars(PassThrough)

RECURSIVE SumLen(_)
SumLen(list) ==
    IF list = <<>> THEN 0
    ELSE (Head(list)[2] - Head(list)[1]) + SumLen(Tail(list))

\* twice the points still on the work-list plus the ranges on it
Variant == 2 * SumLen(seed_ranges_pair) + Len(seed_ranges_pair)

\* the ranges the iteration that pops Top pushes back
Pushed ==
    SubSeq(seed_ranges_pair', Len(seed_ranges_pair), Len(seed_ranges_pair'))

\* C11: every iteration of the drain loop lowers a natural-number variant;
\* a re-queued prefix or suffix is a non-empty, strictly shorter part of the
\* popped range and shares no point with the rule that produced it (so that
\* rule splits no piece of the range again); and the loop, once entered,
\* reaches the empty work-list.
C11_DrainTerminates ==
    /\ [][(pc = "drain" /\ seed_ranges_pair # <<>>) =>
            /\ pc' = "drain"
            /\ Variant >= 0 /\ Variant' >= 0 /\ Variant' < Variant
            /\ Len(seed_ranges_pair') <= Len(seed_ranges_pair) + 1
            /\ \A k \in DOMAIN Pushed :
                   /\ Top[1] <= Pushed[k][1] /\ Pushed[k][2] <= Top[2]
                   /\ Pushed[k][1] < Pushed[k][2]
                   /\ Pushed[k][2] - Pushed[k][1] < Top[2] - Top[1]
                   /\ SetMin(Touching(Top)) \notin Touching(Pushed[k])]_vars
    /\ (pc = "drain") ~> CallDone

\* one range was split twice, by two rules, before the work-list ran empty
C11_Witness ==
    /\ CallDone /\ Len(args) = 1
    /\ Len(converted_ranges) >= 3
    /\ \E j, k \in DOMAIN converted_ranges :
           /\ converted_ranges[j][1] # origin[j]
           /\ converted_ranges[k][1] # origin[k]
           /\ converted_ranges[j][1] - origin[j]
                  # converted_ranges[k][1] - origin[k]

\* C13: malformed rule text (a token int() rejects, a line without exactly
\* three fields) fails when the Category is constructed; no rule that is not
\* a 3-tuple ever reaches convert_seed_range and no failure surfaces there
C13_ParsingBoundary ==
    /\ pc # "raised_unpack"
    /\ pc = "drain" => \A i \in DOMAIN categories[idx] :
                           Len(categories[idx][i]) = 3

\* ------------------------------------------------ day5: order of the rules
\* the while loop of convert_seed_range run to its end
RECURSIVE DrainLoop(_, _, _)
DrainLoop(category_map, worklist, converted) ==
    IF worklist = <<>> THEN converted
    ELSE LET n == Len(worklist)
             start == worklist[n][1]
             end == worklist[n][2]
             rest == SubSeq(worklist, 1, n - 1)
             i == FirstOverlap(category_map, start, end, 1)
         IN IF i = 0
            THEN DrainLoop(category_map, rest, Append(converted, <<start, end>>))
            ELSE LET rule == category_map[i]
                     os == overlap_start(rule, start)
                     oe == overlap_end(rule, end)
                 IN DrainLoop(category_map,
                              rest \o Requeued(start, end, os, oe),
                              Append(converted, <<os - rule[2] + rule[1],
                                                  oe - rule[2] + rule[1]>>))

convert_seed_range(category_map, ranges) == DrainLoop(category_map, ranges, <<>>)

Elems(list) == {list[i] : i \in DOMAIN list}

\* the orders a list of n rules can be written in
Orders(n) == {f \in [1..n -> 1..n] : \A a, b \in 1..n : f[a] = f[b] => a = b}

Reordered(category_map, f) == [k \in DOMAIN category_map |-> category_map[f[k]]]

\* no point lies in the source interval of two rules
DisjointSources(category_map) ==
    \A a, b \in DOMAIN category_map :
        a # b => ~(Max(category_map[a][2], category_map[b][2])
                     < Min(category_map[a][2] + category_map[a][3],
                           category_map[b][2] + category_map[b][3]))

\* C14: for a category whose rules have pairwise non-overlapping source
\* intervals, convert_seed_range returns the same set of ranges whatever the
\* order of the rules: the ranges the running call returns for its argument,
\* and the ranges returned for the argument with one more range in front
C14_OrderIndependent ==
    (CallDone /\ DisjointSources(categories[idx])) =>
        \A f \in Orders(Len(categories[idx])) :
            LET reordered == Reordered(categories[idx], f) IN
            /\ Elems(convert_seed_range(reordered, args)) = Elems(converted_ranges)
            /\ \A r \in Ranges :
                   Elems(convert_seed_range(reordered, <<r>> \o args))
                       = Elems(convert_seed_range(categories[idx], <<r>> \o args))

\* three rules with disjoint sources all split the range, and another order
\* of the rules returns the ranges in another order
C14_Witness ==
    /\ CallDone /\ DisjointSources(categories[idx])
    /\ Len(categories[idx]) = 3
    /\ \A i \in 1..3 : \E k \in DOMAIN converted_ranges :
           /\ origin[k] = Max(args[1][1], categories[idx][i][2])
           /\ categories[idx][i][2] <= origin[k]
           /\ origin[k] < categories[idx][i][2] + categories[idx][i][3]
    /\ \E f \in Orders(3) :
           convert_seed_range(Reordered(categories[idx], f), args) # converted_ranges

\* the source_start and source_start + length values of the rules
Boundaries(category_map) ==
    {category_map[i][2] : i \in DOMAIN category_map}
        \cup {category_map[i][2] + category_map[i][3] : i \in DOMAIN category_map}

\* rule boundaries lying strictly inside the ranges of list, one crossing
\* for every range a boundary lies inside
RECURSIVE Crossed(_, _)
Crossed(category_map, list) ==
    IF list = <<>> THEN 0
    ELSE Cardinality({b \in Boundaries(category_map) :
                         Head(list)[1] < b /\ b < Head(list)[2]})
             + Crossed(category_map, Tail(list))

\* C15 as stated: the ranges on the work-list plus the ranges in the output
\* are at most the input ranges of the call plus the number of rule boundaries
\* that lie strictly inside an input range
C15_AsStated ==
    pc = "drain" =>
        Len(seed_ranges_pair) + Len(converted_ranges)
            <= Len(args)
               + Cardinality({b \in Boundaries(categories[idx]) :
                                 \E i \in DOMAIN args :
                                     args[i][1] < b /\ b < args[i][2]})

\* C15: at every step of the drain loop the ranges on the work-list plus the
\* ranges in the output are at most the input ranges of the call plus the
\* crossings of a rule boundary by an input range, a boundary counting once
\* for every input range it lies strictly inside
C15_RangeCountBounded ==
    pc = "drain" =>
        Len(seed_ranges_pair) + Len(converted_ranges)
            <= Len(args) + Crossed(categories[idx], args)

\* two input ranges, each cut at both ends of a rule, come out as six ranges
C15_Witness ==
    /\ CallDone
    /\ Len(args) = 2
    /\ Crossed(categories[idx], args) = 4
    /\ Len(converted_ranges) = 6

(***************************************************************************)
(* day6: BoatRace.calculate_ways_to_win_for_one_race, one step per          *)
(* iteration of its for loop.                                               *)
(***************************************************************************)
MaxDuration == 7      \* duration is drawn from 0..MaxDuration
MaxRecord == 12       \* distance_record is drawn from 0..MaxRecord

\* Boat.hold_button(time) followed by Boat.release_button()
release_button(time) == time

\* distance = speed * remaining_time
distance(hold) == release_button(hold) * (duration - hold)

\* calculate_ways_to_win_for_one_race(duration, distance_record) is entered
InitRace ==
    \E d \in 0..MaxDuration, r \in 0..MaxRecord :
        /\ duration = d
        /\ distance_record = r
        /\ hold_time = 0
        /\ first_time = 0
        /\ ways = 0
        /\ pc = "hold"
        /\ NoGardener /\ NoDeck /\ NoSchematic

\* an iteration whose distance does not beat the record
Hold ==
    /\ pc = "hold"
    /\ hold_time <= duration
    /\ ~(distance(hold_time) > distance_record)
    /\ hold_time' = hold_time + 1
    /\ UNCHANGED <<duration, distance_record, first_time, ways, pc,
                   gardener, cards, engine>>

\* the iteration whose distance beats the record: first_time is set, break
Break ==
    /\ pc = "hold"
    /\ hold_time <= duration
    /\ distance(hold_time) > distance_record
    /\ first_time' = hold_time
    /\ pc' = "count"
    /\ UNCHANGED <<duration, distance_record, hold_time, ways,
                   gardener, cards, engine>>

\* range(duration + 1) is exhausted, first_time is still 0
Exhausted ==
    /\ pc = "hold"
    /\ hold_time > duration
    /\ pc' = "count"
    /\ UNCHANGED <<race, gardener, cards, engine>>

\* last_time = duration - first_time; return last_time - first_time + 1
ReturnWays ==
    /\ pc = "count"
    /\ LET last_time == duration - first_time
       IN ways' = last_time - first_time + 1
    /\ pc' = "returned"
    /\ UNCHANGED <<duration, distance_record, hold_time, first_time,
                   gardener, cards, engine>>

NextRace ==
    \/ Hold
    \/ Break
    \/ Exhausted
    \/ ReturnWays

SpecRace == InitRace /\ [][NextRace]_vars

\* the hold times that win the race
Winning == {h \in 0..duration : h * (duration - h) > distance_record}

\* C12: the value calculate_ways_to_win_for_one_race returns is the number
\* of integer hold times h with 0 <= h <= duration and
\* h * (duration - h) > distance_record
C12_WaysToWin ==
    pc = "returned" => ways = Cardinality(Winning)

(***************************************************************************)
(* day4: Deck.gain_cards, one step per card of its outer loop, and          *)
(* Deck.number_of_cards_in_total.                                           *)
(***************************************************************************)
MaxCards == 3         \* cards of the deck, card ids are drawn from 1..MaxCards
MaxNumber == 2        \* the numbers on a card are drawn from 1..MaxNumber
MaxGainCalls == 2     \* calls of gain_cards

\* Scratchcard.number_of_winnings
number_of_winnings(c) == Cardinality(c.winning_numbers \cap c.scratched_numbers)

Scratchcards ==
    [card_id : 1..MaxCards,
     winning_numbers : SUBSET (1..MaxNumber),
     scratched_numbers : SUBSET (1..MaxNumber)]

\* Deck(cards) for cards of distinct ids, in any order
InitDeck ==
    \E cs \in SeqsUpTo(Scratchcards, MaxCards) :
        /\ \A a, b \in DOMAIN cs : cs[a].card_id = cs[b].card_id => a = b
        /\ deck = cs
        /\ quantities = [k \in {cs[a].card_id : a \in DOMAIN cs} |-> 1]
        /\ deck_pos = 0
        /\ total = 0
        /\ gained = 0
        /\ pc = "deck"
        /\ NoGardener /\ NoRace /\ NoSchematic

\* slip: every copy won is counted as one card
GainedOne(q, id, n) ==
    [k \in DOMAIN q |-> IF id < k /\ k <= id + n THEN q[k] + 1 ELSE q[k]]

\* for d_idx in range(1, n + 1): quantities[id + d_idx] += quantities[id]
Gained(q, id, n) ==
    [k \in DOMAIN q |-> IF id < k /\ k <= id + n THEN q[k] + q[id] ELSE q[k]]

\* the d_idx values of the inner loop whose key is not in quantities
Missing(q, id, n) == {d \in 1..n : id + d \notin DOMAIN q}

\* gain_cards is called
GainCards ==
    /\ pc \in {"deck", "counted"}
    /\ gained < MaxGainCalls
    /\ deck_pos' = 1
    /\ pc' = "gain"
    /\ UNCHANGED <<deck, quantities, total, gained, gardener, race, engine>>

\* one card of the outer loop, its inner loop run to the end
GainCard ==
    /\ pc = "gain"
    /\ deck_pos <= Len(deck)
    /\ LET id == deck[deck_pos].card_id
           number_of_wins == number_of_winnings(deck[deck_pos])
       IN /\ Missing(quantities, id, number_of_wins) = {}
          /\ quantities' = Gained(quantities, id, number_of_wins)
    /\ deck_pos' = deck_pos + 1
    /\ UNCHANGED <<deck, total, gained, pc, gardener, race, engine>>

\* one card of the outer loop whose inner loop reaches a key quantities does
\* not hold: the entries before it are updated, then KeyError
GainKeyError ==
    /\ pc = "gain"
    /\ deck_pos <= Len(deck)
    /\ LET id == deck[deck_pos].card_id
           missing == Missing(quantities, id, number_of_winnings(deck[deck_pos]))
       IN /\ missing # {}
          /\ quantities' = Gained(quantities, id, SetMin(missing) - 1)
    /\ pc' = "key_error"
    /\ UNCHANGED <<deck, deck_pos, total, gained, gardener, race, engine>>

\* the outer loop is exhausted, gain_cards returns
GainReturn ==
    /\ pc = "gain"
    /\ deck_pos > Len(deck)
    /\ deck_pos' = 0
    /\ gained' = gained + 1
    /\ pc' = "deck"
    /\ UNCHANGED <<deck, quantities, total, gardener, race, engine>>

RECURSIVE SumValues(_, _)
SumValues(q, keys) ==
    IF keys = {} THEN 0
    ELSE LET k == CHOOSE k \in keys : TRUE
         IN q[k] + SumValues(q, keys \ {k})

\* return sum(self.quantities.values())
NumberOfCardsInTotal ==
    /\ pc = "deck"
    /\ total' = SumValues(quantities, DOMAIN quantities)
    /\ pc' = "counted"
    /\ UNCHANGED <<deck, quantities, deck_pos, gained, gardener, race, engine>>

NextDeck ==
    \/ GainCards
    \/ GainCard
    \/ GainKeyError
    \/ GainReturn
    \/ NumberOfCardsInTotal

SpecDeck == InitDeck /\ [][NextDeck]_vars

\* the card ids are 1..N in ascending order and no card wins past card N
ConsecutiveDeck ==
    /\ \A k \in DOMAIN deck : deck[k].card_id = k
    /\ \A k \in DOMAIN deck : k + number_of_winnings(deck[k]) <= Len(deck)

\* the earlier cards whose wins reach card i
Feeders(i) == {j \in 1..(i - 1) : i <= j + number_of_winnings(deck[j])}

\* C16: after one gain_cards() on a fresh deck of cards 1..N whose wins stay
\* within the deck, quantities[i] is 1 plus the sum of the final
\* quantities[j] over the earlier cards j with j < i <= j + wins(j), and
\* number_of_cards_in_total() returns the sum of these quantities
C16_GainCards ==
    (pc \in {"deck", "counted"} /\ gained = 1 /\ ConsecutiveDeck) =>
        /\ \A i \in DOMAIN deck :
               quantities[i] = 1 + SumValues(quantities, Feeders(i))
        /\ pc = "counted" =>
               total = SumValues([i \in DOMAIN deck |->
                                     1 + SumValues(quantities, Feeders(i))],
                                 DOMAIN deck)

\* three cards, the first wins two copies and the second one: 1, 2 and 4
\* cards, seven in total
C16_Witness ==
    /\ pc = "counted" /\ gained = 1 /\ ConsecutiveDeck
    /\ Len(deck) = 3
    /\ number_of_winnings(deck[1]) = 2
    /\ number_of_winnings(deck[2]) = 1
    /\ quantities = <<1, 2, 4>>
    /\ total = 7

(***************************************************************************)
(* day3: process_schematic, one step per row, and sum_adjacent_values.      *)
(* Rows and columns are counted from 1; a match is (start, end) with end    *)
(* one past its last digit, as re.Match.start() and end() are.              *)
(***************************************************************************)
MaxRows == 2          \* rows of the schematic
MaxCols == 3          \* columns of the schematic

Chars == {"1", "2", ".", "*"}

\* int() of a one-digit string
DigitOf == [c \in {"1", "2"} |-> IF c = "1" THEN 1 ELSE 2]

IsDigit(c) == c \in DOMAIN DigitOf

\* int(number_match.group()): the digits of row[start..end-1] in base 10
RECURSIVE IntOfDigits(_, _, _)
IntOfDigits(row, start, end) ==
    IF start >= end THEN 0
    ELSE 10 * IntOfDigits(row, start, end - 1) + DigitOf[row[end - 1]]

\* the end of the run of digits that begins at start
RECURSIVE RunEnd(_, _)
RunEnd(row, start) ==
    IF start > Len(row) \/ ~IsDigit(row[start]) THEN start
    ELSE RunEnd(row, start + 1)

\* re.finditer("\d+", row): the maximal runs of digits from column from on,
\* left to right
RECURSIVE FindIter(_, _)
FindIter(row, from) ==
    IF from > Len(row) THEN <<>>
    ELSE IF IsDigit(row[from])
         THEN <<<<from, RunEnd(row, from)>>>> \o FindIter(row, RunEnd(row, from))
         ELSE FindIter(row, from + 1)

\* create_dict_coords_symbols
create_dict_coords_symbols(board) ==
    [o \in {rc \in (1..Len(board)) \X (1..Len(board[1])) :
               ~IsDigit(board[rc[1]][rc[2]]) /\ board[rc[1]][rc[2]] # "."}
        |-> <<>>]

find_adjacent_coords(r_idx, n_start, n_end) ==
    {r_idx - 1, r_idx, r_idx + 1} \X ((n_start - 1)..n_end)

update_symbol_coords(adj_chars, coords_edge_number, number) ==
    [o \in DOMAIN adj_chars |->
        IF o \in coords_edge_number THEN Append(adj_chars[o], number)
        ELSE adj_chars[o]]

\* the inner for loop of process_schematic over the matches of one row
RECURSIVE ScanMatches(_, _, _, _)
ScanMatches(adj_chars, r, row_data, matches) ==
    IF matches = <<>> THEN adj_chars
    ELSE LET number_match == Head(matches)
             edge == find_adjacent_coords(r, number_match[1], number_match[2])
         IN ScanMatches(
                update_symbol_coords(adj_chars, edge,
                    IntOfDigits(row_data, number_match[1], number_match[2])),
                r, row_data, Tail(matches))

\* process_schematic(schematic) is entered for a rectangular schematic
InitSchematic ==
    \E h \in 1..MaxRows, w \in 1..MaxCols :
        \E board \in [1..h -> [1..w -> Chars]] :
            /\ schematic = board
            /\ symbol_coords = <<>>
            /\ cur_r = 0
            /\ part_sum = 0
            /\ pc = "schematic"
            /\ NoGardener /\ NoRace /\ NoDeck

\* symbol_coords = create_dict_coords_symbols(schematic)
CreateDict ==
    /\ pc = "schematic"
    /\ symbol_coords' = create_dict_coords_symbols(schematic)
    /\ pc' = "scan"
    /\ UNCHANGED <<schematic, cur_r, part_sum, gardener, race, cards>>

\* one row of the outer for loop
ScanRow ==
    /\ pc = "scan"
    /\ cur_r < Len(schematic)
    /\ symbol_coords' = ScanMatches(symbol_coords, cur_r + 1, schematic[cur_r + 1],
                                    FindIter(schematic[cur_r + 1], 1))
    /\ cur_r' = cur_r + 1
    /\ UNCHANGED <<schematic, part_sum, pc, gardener, race, cards>>

\* return symbol_coords
ReturnCoords ==
    /\ pc = "scan"
    /\ cur_r = Len(schematic)
    /\ pc' = "processed"
    /\ UNCHANGED <<engine, gardener, race, cards>>

RECURSIVE SumList(_)
SumList(p) == IF p = <<>> THEN 0 ELSE Head(p) + SumList(Tail(p))

RECURSIVE SumLists(_, _)
SumLists(coords, keys) ==
    IF keys = {} THEN 0
    ELSE LET o == CHOOSE o \in keys : TRUE
         IN SumList(coords[o]) + SumLists(coords, keys \ {o})

\* sum_adjacent_values(symbol_coords)
SumAdjacentValues ==
    /\ pc = "processed"
    /\ part_sum' = SumLists(symbol_coords, DOMAIN symbol_coords)
    /\ pc' = "summed"
    /\ UNCHANGED <<schematic, symbol_coords, cur_r, gardener, race, cards>>

NextSchematic ==
    \/ CreateDict
    \/ ScanRow
    \/ ReturnCoords
    \/ SumAdjacentValues

SpecSchematic == InitSchematic /\ [][NextSchematic]_vars

\* the cells holding a symbol: neither a digit nor "."
Symbols ==
    {rc \in (1..Len(schematic)) \X (1..Len(schematic[1])) :
        ~IsDigit(schematic[rc[1]][rc[2]]) /\ schematic[rc[1]][rc[2]] # "."}

\* the maximal runs of digits, as (row, first column, last column)
Numbers ==
    {n \in (1..Len(schematic)) \X (1..Len(schematic[1])) \X (1..Len(schematic[1])) :
        /\ n[2] <= n[3]
        /\ \A c \in n[2]..n[3] : IsDigit(schematic[n[1]][c])
        /\ n[2] = 1 \/ ~IsDigit(schematic[n[1]][n[2] - 1])
        /\ n[3] = Len(schematic[1]) \/ ~IsDigit(schematic[n[1]][n[3] + 1])}

\* a symbol touches a cell of the number, diagonals included
Adjacent(n, rc) ==
    \E c \in n[2]..n[3] :
        /\ rc[1] - n[1] \in {-1, 0, 1}
        /\ rc[2] - c \in {-1, 0, 1}

PartNumbers == {n \in Numbers : \E rc \in Symbols : Adjacent(n, rc)}

RECURSIVE ValueOf(_, _, _)
ValueOf(row, first, last) ==
    IF first > last THEN 0
    ELSE 10 * ValueOf(row, first, last - 1) + DigitOf[row[last]]

RECURSIVE SumNumbers(_)
SumNumbers(ns) ==
    IF ns = {} THEN 0
    ELSE LET n == CHOOSE n \in ns : TRUE
         IN ValueOf(schematic[n[1]], n[2], n[3]) + SumNumbers(ns \ {n})

\* C17: sum_adjacent_values(process_schematic(schematic)) is the sum of the
\* part numbers: every maximal run of digits adjacent to at least one
\* symbol counts once, a run adjacent to no symbol does not count
C17_PartNumberSum ==
    pc = "summed" => part_sum = SumNumbers(PartNumbers)

====
